---- MODULE Spec2Model ----
(***************************************************************************)
(* Job admission, de-duplication, caching and browser lifecycle of the     *)
(* Nooki CO2 analyzer.  The repository holds two iterations of the server: *)
(*   "v1"  src/server.mjs          queue + global timeout, closed-retry     *)
(*   "v2"  src/unnamed/part_000    adds pendingUrls / cache and the         *)
(*                                 desktop -> mobile profile fallback       *)
(* Both are modelled; the variable `version` says which one is running.    *)
(*                                                                         *)
(* Node's event loop is modelled by its macro-tasks: one action is one     *)
(* callback (an HTTP request, a timer, the completion of an engine call,   *)
(* an engine event) together with every promise continuation that runs     *)
(* before the loop takes the next callback.                                *)
(*                                                                         *)
(* Time is counted in ticks; CACHE_TTL_MS and GLOBAL_TIMEOUT_MS are the    *)
(* configured values expressed in ticks, RELAUNCH_EVERY is configured      *)
(* small so that recycling happens within the bounds.                      *)
(***************************************************************************)
EXTENDS Integers, Sequences, FiniteSets, TLC

\* ---------------------------------------------------------------- bounds
MaxRequests == 3      \* HTTP requests accepted in one behaviour
MaxLaunches == 2      \* engine launches in one behaviour
MaxTime     == 2      \* last tick of the clock
MaxTimeouts == 1      \* firings of the global timeout in one behaviour

\* ------------------------------------------------------------- constants
CACHE_TTL_MS      == 2
GLOBAL_TIMEOUT_MS == 1
RELAUNCH_EVERY    == 2
MAX_CONCURRENCY   == 1
Null              == 0

Urls == {"a", "b"}

\* Classes of error message, told apart by the regular expressions of
\* readPerfWithRetry and analyzeOnce:
\*   "closed"     Target page, context or browser has been closed
\*   "destroyed"  Execution context was destroyed
\*   "blocked"    blocked / forbidden / navigation timeout
\*   "other"      anything else (e.g. "No response")
\*   "launch"     chromium.launch() rejected
\*   "timeout"    Global analyze timeout
EngineErrors == {"closed", "destroyed", "blocked", "other"}

VARIABLES
  version,             \* "v1" | "v2": which server file runs
  now,                 \* Date.now(), in ticks
  browser,             \* let browser: Null or the id of an engine process
  launching,           \* let launching: Null or the id of the pending launch promise
  analysesSinceLaunch, \* let analysesSinceLaunch
  queue,               \* const queue: sequence of jobs [id, url, caller, at]
  running,             \* let running
  pendingUrls,         \* const pendingUrls: url -> sequence of waiters (v2)
  cache,               \* const cache: url -> [time, result] (v2)
  tasks,               \* task() promises drain is awaiting:
                       \*   job id -> [url, caller, started, armed, deadline]
  attempts,            \* analyzeOnce calls not yet returned: job id -> frame
  launches,            \* chromium.launch() calls not yet settled (engine side)
  nLaunch,             \* number of the last launch started; launch k yields process k
  alive,               \* engine processes that have not emitted "disconnected"
  dead,                \* engine processes that have emitted "disconnected"
  closing,             \* engine processes on which close() was called
  callers,             \* the HTTP requests so far: [url, round, hit, done, ok, res]
  jobsLog,             \* every job ever queued: [url, round, calls]
  epoch,               \* url -> number of rounds of pendingUrls that have ended (v2)
  perf,                \* one measurement on a page: what page.goto and the two
                       \*   page.evaluate calls answer, and what came of it
  served,              \* engine process -> analyzeOnce calls that returned data from it
  unclosed,            \* contexts left without close() by analyzeOnce calls that returned
  nTimeouts            \* number of times the global timeout has fired

vars == <<version, now, browser, launching, analysesSinceLaunch, queue, running,
          pendingUrls, cache, tasks, attempts, launches, nLaunch, alive, dead,
          closing, callers, jobsLog, epoch, perf, served, unclosed, nTimeouts>>

\* ------------------------------------------------------------- utilities
Put(f, k, v) == [x \in (DOMAIN f) \cup {k} |-> IF x = k THEN v ELSE f[x]]
Del(f, k)    == [x \in (DOMAIN f) \ {k} |-> f[x]]
Empty        == [x \in {} |-> Null]

\* The mutable state as one record, so that a handler can be written as the
\* composition of the functions it calls.
Mach ==
  [browser |-> browser, launching |-> launching,
   analysesSinceLaunch |-> analysesSinceLaunch, queue |-> queue,
   running |-> running, pendingUrls |-> pendingUrls, cache |-> cache,
   tasks |-> tasks, attempts |-> attempts, launches |-> launches,
   nLaunch |-> nLaunch, alive |-> alive, dead |-> dead, closing |-> closing,
   callers |-> callers, jobsLog |-> jobsLog, epoch |-> epoch,
   served |-> served, unclosed |-> unclosed]

Commit(m) ==
  /\ browser' = m.browser
  /\ launching' = m.launching
  /\ analysesSinceLaunch' = m.analysesSinceLaunch
  /\ queue' = m.queue
  /\ running' = m.running
  /\ pendingUrls' = m.pendingUrls
  /\ cache' = m.cache
  /\ tasks' = m.tasks
  /\ attempts' = m.attempts
  /\ launches' = m.launches
  /\ nLaunch' = m.nLaunch
  /\ alive' = m.alive
  /\ dead' = m.dead
  /\ closing' = m.closing
  /\ callers' = m.callers
  /\ jobsLog' = m.jobsLog
  /\ epoch' = m.epoch
  /\ served' = m.served
  /\ unclosed' = m.unclosed

\* A frame of analyzeOnce(url, fresh).
\*   pc      where the call is suspended
\*   b       the handle ensureBrowser returned (Null before)
\*   lw      the launch promise awaited at pc = "launch"
\*   cl      the process whose close() is awaited at pc = "close"
\*   open    contexts this frame has opened and not closed
\*   outer   v1 only: contexts the calling frame (the first try) still holds
\*   fb      v2 only: the mobile fallback is running
\*   failed  the frame throws once its finally clause is done
\*   opened, navs, esc   since the top-level call: contexts opened, page.goto
\*           calls made, retries or fallbacks entered
Frame(u, fresh, outer) ==
  [url |-> u, pc |-> "entry", fresh |-> fresh, b |-> Null, lw |-> Null,
   cl |-> Null, open |-> 0, outer |-> outer, fb |-> FALSE, failed |-> FALSE,
   opened |-> 0, navs |-> 0, esc |-> 0]

SetA(m, a, f) == [m EXCEPT !.attempts = Put(@, a, f)]

\* ------------------------------------------------------ browser lifecycle
Got(f, p) == [f EXCEPT !.pc = "ctx", !.b = p, !.lw = Null, !.cl = Null]

\* chromium.launch() call number k yields process k if it resolves; the calls
\* after MaxLaunches all bear the number MaxLaunches + 1 and can only reject.
NextLaunch(m) == IF m.nLaunch >= MaxLaunches THEN MaxLaunches + 1 ELSE m.nLaunch + 1

\* ensureBrowser without the `if (launching) return launching` line.
ensureBrowserNoPending(m, a) ==
  LET f == m.attempts[a] IN
  IF m.browser # Null THEN SetA(m, a, Got(f, m.browser))
  ELSE LET l == NextLaunch(m) IN
       SetA([m EXCEPT !.nLaunch = l, !.launching = l, !.launches = @ \cup {l}],
            a, [f EXCEPT !.pc = "launch", !.lw = l])

\* ensureBrowser() called by frame a, and the frame's await of what it returns.
ensureBrowser(m, a) ==
  LET f == m.attempts[a] IN
  IF m.browser # Null THEN SetA(m, a, Got(f, m.browser))
  ELSE IF m.launching # Null
    THEN SetA(m, a, [f EXCEPT !.pc = "launch", !.lw = m.launching])
  ELSE LET l == NextLaunch(m) IN
       SetA([m EXCEPT !.nLaunch = l, !.launching = l, !.launches = @ \cup {l}],
            a, [f EXCEPT !.pc = "launch", !.lw = l])

\* No listener installed: a disconnect leaves `browser` as it is.
onDisconnectedNoListener(m, p) == m

\* The "disconnected" listener installed by ensureBrowser on process p.
onDisconnected(m, p) == [m EXCEPT !.browser = Null]

\* analyzeOnce(url, fresh) from its call to its first suspension.  A frame that
\* already exists is the v1 retry: the calling frame keeps its contexts open
\* until the retry has returned.
analyzeOnce(m, a, u, fresh) ==
  LET f0 == IF a \in DOMAIN m.attempts
              THEN [Frame(u, fresh, m.attempts[a].open) EXCEPT
                      !.opened = m.attempts[a].opened, !.navs = m.attempts[a].navs,
                      !.esc = m.attempts[a].esc + 1]
              ELSE Frame(u, fresh, 0)
      m0 == SetA(m, a, f0)
  IN IF fresh \/ m.analysesSinceLaunch >= RELAUNCH_EVERY
       THEN IF m.browser # Null
              THEN SetA([m0 EXCEPT !.closing = @ \cup {m.browser}], a,
                        [f0 EXCEPT !.pc = "close", !.cl = m.browser])
              ELSE ensureBrowser(m0, a)
       ELSE ensureBrowser(m0, a)

\* ------------------------------------------------------------------ queue
\* withTimeout that only awaits the promise, without a timer.
withTimeoutNoTimer(m, j) == m

\* withTimeout(promise, ms): arms the timer of task j once the promise exists.
withTimeout(m, j) ==
  [m EXCEPT !.tasks[j].armed = TRUE, !.tasks[j].deadline = now + GLOBAL_TIMEOUT_MS]

\* drain taking the job queued last (queue.pop() for queue.shift()).
drainLifo(m) ==
  IF m.running >= MAX_CONCURRENCY \/ m.queue = <<>> THEN m
  ELSE LET j  == m.queue[Len(m.queue)]
           m1 == [m EXCEPT !.queue = SubSeq(@, 1, Len(@) - 1), !.running = @ + 1,
                     !.tasks = Put(@, j.id, [url |-> j.url, caller |-> j.caller,
                                             started |-> now, armed |-> FALSE,
                                             deadline |-> 0]),
                     !.jobsLog[j.id].calls = @ + 1]
       IN withTimeout(analyzeOnce(m1, j.id, j.url, FALSE), j.id)

\* drain() up to its await of task(): the task calls analyzeOnce at once.
drain(m) ==
  IF m.running >= MAX_CONCURRENCY \/ m.queue = <<>> THEN m
  ELSE LET j  == Head(m.queue)
           m1 == [m EXCEPT !.queue = Tail(@), !.running = @ + 1,
                     !.tasks = Put(@, j.id, [url |-> j.url, caller |-> j.caller,
                                             started |-> now, armed |-> FALSE,
                                             deadline |-> 0]),
                     !.jobsLog[j.id].calls = @ + 1]
       IN withTimeout(analyzeOnce(m1, j.id, j.url, FALSE), j.id)

\* What a caller is answered: the result computed by job `res`, or the error
\* with which job `res` failed.
Outcome(ok, res) == [ok |-> ok, res |-> res]

Resolve(m, c, out) ==
  [m EXCEPT !.callers[c].done = TRUE, !.callers[c].ok = out.ok,
            !.callers[c].res = out.res]

RECURSIVE ResolveAll(_, _, _)
ResolveAll(m, ws, out) ==
  IF ws = <<>> THEN m ELSE ResolveAll(Resolve(m, Head(ws), out), Tail(ws), out)

NewJob(m, c, u) ==
  LET id == Len(m.jobsLog) + 1 IN
  [m EXCEPT !.queue = Append(@, [id |-> id, url |-> u, caller |-> c, at |-> now]),
            !.jobsLog = Append(@, [url |-> u, round |-> m.epoch[u], calls |-> 0])]

\* enqueue without the pendingUrls test: every stale lookup queues a job.
enqueueNoJoin(m, c, u) ==
  IF u \in DOMAIN m.cache /\ now - m.cache[u].time < CACHE_TTL_MS
    THEN Resolve([m EXCEPT !.callers[c].hit = TRUE], c,
                 Outcome(TRUE, m.cache[u].result))
  ELSE drain(NewJob([m EXCEPT !.pendingUrls = Put(@, u, <<c>>)], c, u))

\* enqueue with the freshness test written <= instead of <.
enqueueTtlInclusive(m, c, u) ==
  IF u \in DOMAIN m.cache /\ now - m.cache[u].time <= CACHE_TTL_MS
    THEN Resolve([m EXCEPT !.callers[c].hit = TRUE], c,
                 Outcome(TRUE, m.cache[u].result))
  ELSE IF u \in DOMAIN m.pendingUrls
    THEN [m EXCEPT !.pendingUrls[u] = Append(@, c)]
  ELSE drain(NewJob([m EXCEPT !.pendingUrls = Put(@, u, <<c>>)], c, u))

\* v2 enqueue(url, task), called for caller c.
enqueue(m, c, u) ==
  IF u \in DOMAIN m.cache /\ now - m.cache[u].time < CACHE_TTL_MS
    THEN Resolve([m EXCEPT !.callers[c].hit = TRUE], c,
                 Outcome(TRUE, m.cache[u].result))
  ELSE IF u \in DOMAIN m.pendingUrls
    THEN [m EXCEPT !.pendingUrls[u] = Append(@, c)]
  ELSE drain(NewJob([m EXCEPT !.pendingUrls = Put(@, u, <<c>>)], c, u))

\* v1 enqueue(task), called for caller c.
enqueueV1(m, c, u) == drain(NewJob(m, c, u))

\* drain with cache.set moved out of the try block: failures are recorded too.
drainSettleCacheAlways(m, j, out) ==
  LET u  == m.tasks[j].url
      m1 == [m EXCEPT !.cache = Put(@, u, [time |-> now, result |-> out.res])]
      ws == IF u \in DOMAIN m.pendingUrls THEN m.pendingUrls[u] ELSE <<>>
      m2 == ResolveAll(m1, ws, out)
      m3 == [m2 EXCEPT !.pendingUrls = Del(@, u), !.running = @ - 1,
                       !.tasks = Del(@, j), !.epoch[u] = @ + 1]
      m4 == drain(m3)
  IN IF ~out.ok /\ ws # <<>> THEN [m4 EXCEPT !.browser = Null] ELSE m4

\* drain without pendingUrls.delete(url) in its finally clause.
drainSettleKeepPending(m, j, out) ==
  LET u  == m.tasks[j].url
      m1 == IF out.ok
              THEN [m EXCEPT !.cache = Put(@, u, [time |-> now, result |-> out.res])]
              ELSE m
      ws == IF u \in DOMAIN m.pendingUrls THEN m.pendingUrls[u] ELSE <<>>
      m2 == ResolveAll(m1, ws, out)
      m3 == [m2 EXCEPT !.running = @ - 1, !.tasks = Del(@, j), !.epoch[u] = @ + 1]
      m4 == drain(m3)
  IN IF ~out.ok /\ ws # <<>> THEN [m4 EXCEPT !.browser = Null] ELSE m4

\* v2 drain() from the settlement of task() to its end, followed by the
\* handlers of the rejected callers (browser = null).
drainSettle(m, j, out) ==
  LET u  == m.tasks[j].url
      m1 == IF out.ok
              THEN [m EXCEPT !.cache = Put(@, u, [time |-> now, result |-> out.res])]
              ELSE m
      ws == IF u \in DOMAIN m.pendingUrls THEN m.pendingUrls[u] ELSE <<>>
      m2 == ResolveAll(m1, ws, out)
      m3 == [m2 EXCEPT !.pendingUrls = Del(@, u), !.running = @ - 1,
                       !.tasks = Del(@, j), !.epoch[u] = @ + 1]
      m4 == drain(m3)
  IN IF ~out.ok /\ ws # <<>> THEN [m4 EXCEPT !.browser = Null] ELSE m4

\* v1: the task's own try/catch answers the caller, then drain's finally.
taskSettleV1(m, j, out) ==
  LET m1 == IF out.ok THEN m ELSE [m EXCEPT !.browser = Null]
      m2 == Resolve(m1, m.tasks[j].caller, out)
      m3 == [m2 EXCEPT !.running = @ - 1, !.tasks = Del(@, j)]
  IN drain(m3)

\* drain without its finally clause: the callers are answered, but the slot
\* is not released and the next job is not started.
SettleNoRelease(m, j, out) ==
  LET u  == m.tasks[j].url
      ws == IF version = "v2" /\ u \in DOMAIN m.pendingUrls
              THEN m.pendingUrls[u] ELSE <<m.tasks[j].caller>>
  IN [ResolveAll(m, ws, out) EXCEPT !.tasks = Del(@, j)]

\* The task of job j settles with outcome out.
Settle(m, j, out) ==
  IF version = "v2" THEN drainSettle(m, j, out) ELSE taskSettleV1(m, j, out)

\* analyzeOnce frame a returns (out.ok) or throws.  The task turns the data
\* into its result; a frame whose task already timed out is only noted.
Return(m, a, out) ==
  LET f  == m.attempts[a]
      m1 == [m EXCEPT !.attempts = Del(@, a), !.unclosed = @ + f.open + f.outer]
  IN IF a \in DOMAIN m.tasks THEN Settle(m1, a, out) ELSE m1

\* ------------------------------------------------------------ analyzeOnce
\* An error e raised inside the try block of frame a: the catch clause.
\*   v1: "closed" on the first try -> browser = null, analyzeOnce(url, true)
\*   v2: blocked|forbidden|closed|context was destroyed|navigation timeout on
\*       the desktop try -> close page and context, then the mobile profile on
\*       the same handle b; an error of the mobile try leaves the catch clause
\* First, a catch clause without the `fresh === false` / first-try conditions:
\* a retry or fallback that fails escalates again.
ThrowAlwaysEscalate(m, a, e) ==
  LET f == m.attempts[a]
      h == [f EXCEPT !.pc = "fin", !.failed = TRUE]
  IN IF version = "v1"
       THEN IF e = "closed"
              THEN analyzeOnce([m EXCEPT !.browser = Null], a, f.url, TRUE)
              ELSE SetA(m, a, h)
       ELSE IF e \in {"closed", "blocked", "destroyed"}
              THEN SetA(m, a, [f EXCEPT !.pc = "fbclose", !.esc = @ + 1])
              ELSE SetA(m, a, h)

Throw(m, a, e) ==
  LET f == m.attempts[a]
      h == [f EXCEPT !.pc = "fin", !.failed = TRUE]
  IN IF version = "v1"
       THEN IF e = "closed" /\ ~f.fresh
              THEN analyzeOnce([m EXCEPT !.browser = Null], a, f.url, TRUE)
              ELSE SetA(m, a, h)
       ELSE IF ~f.fb /\ ~f.fresh /\ e \in {"closed", "blocked", "destroyed"}
              THEN SetA(m, a, [f EXCEPT !.pc = "fbclose", !.esc = @ + 1])
              ELSE SetA(m, a, h)

\* What page.goto and page.evaluate can answer.
GotoAnswers == {"ok", "closed", "blocked", "other"}
ReadAnswers == {"ok", "closed", "destroyed", "other"}

\* What an engine call on handle b can answer.
Answers(m, b, S) == IF b \in m.alive THEN S ELSE {"closed"}

\* readPerfWithRetry without its catch clause: the first error is thrown.
readPerfNoRetry(r1, r2) ==
  IF r1 = "ok" THEN [err |-> "", reads |-> 1, waited |-> FALSE]
  ELSE [err |-> r1, reads |-> 1, waited |-> FALSE]

\* readPerfWithRetry(page), given what its first and second page.evaluate
\* answer: "Execution context was destroyed" on the first read is followed by
\* one more read, whose answer is final; any other error is thrown at once.
readPerfWithRetry(r1, r2) ==
  IF r1 = "ok" THEN [err |-> "", reads |-> 1, waited |-> FALSE]
  ELSE IF r1 = "destroyed"
    THEN [err |-> IF r2 = "ok" THEN "" ELSE r2, reads |-> 2, waited |-> TRUE]
  ELSE [err |-> r1, reads |-> 1, waited |-> FALSE]

\* page.goto answered g; if that was a response: sleep, readPerfWithRetry.
\* "" is data returned, anything else the error thrown inside the try block.
Measure(g, r1, r2) == IF g = "ok" THEN readPerfWithRetry(r1, r2).err ELSE g

\* analyzeOnce returns its data or rethrows, after its finally clause.
Leave(m, a) ==
  LET f == m.attempts[a] IN
  Return(m, a, Outcome(~f.failed, a))

\* chromium.launch() l rejected: every frame awaiting it throws before its try
\* block; a v1 retry frame still has the calling frame's finally to run.
RECURSIVE FailWaiters(_, _, _)
FailWaiters(m, l, as) ==
  IF as = {} THEN m
  ELSE LET a == CHOOSE x \in as : \A y \in as : x <= y
           f == m.attempts[a]
           m1 == IF f.outer > 0
                   THEN SetA(m, a, [f EXCEPT !.pc = "fin", !.failed = TRUE, !.lw = Null])
                   ELSE Return(m, a, Outcome(FALSE, a))
       IN FailWaiters(m1, l, as \ {a})

Waiters(m, l) == {a \in DOMAIN m.attempts : m.attempts[a].pc = "launch" /\ m.attempts[a].lw = l}

\* ----------------------------------------------------------------- actions
NewCaller(u) ==
  [url |-> u, round |-> epoch[u], hit |-> FALSE, done |-> FALSE, ok |-> FALSE,
   res |-> 0]

\* GET /analyze?url=u
Request(u) ==
  /\ Len(callers) < MaxRequests
  /\ LET c == Len(callers) + 1
         m == [Mach EXCEPT !.callers = Append(@, NewCaller(u))]
     IN Commit(IF version = "v2" THEN enqueue(m, c, u) ELSE enqueueV1(m, c, u))
  /\ UNCHANGED <<version, now, nTimeouts, perf>>

\* The timer of withTimeout fires: the task rejects, analyzeOnce goes on.
TimerFire(j) ==
  /\ j \in DOMAIN tasks
  /\ tasks[j].armed /\ now >= tasks[j].deadline
  /\ nTimeouts < MaxTimeouts
  /\ nTimeouts' = nTimeouts + 1
  /\ Commit(Settle(Mach, j, Outcome(FALSE, j)))
  /\ UNCHANGED <<version, now, perf>>

\* Time passes; a timer that is due fires before the next tick.
Tick ==
  /\ now < MaxTime
  /\ \A j \in DOMAIN tasks : tasks[j].armed => now < tasks[j].deadline
  /\ now' = now + 1
  /\ UNCHANGED <<version, browser, launching, analysesSinceLaunch, queue, running,
                 pendingUrls, cache, tasks, attempts, launches, nLaunch, alive,
                 dead, closing, callers, jobsLog, epoch, perf, served, unclosed, nTimeouts>>

\* chromium.launch() resolves: the .then of ensureBrowser, then the awaiting frames.
LaunchOk(l) ==
  /\ l \in launches /\ l <= MaxLaunches
  /\ LET m1 == [Mach EXCEPT !.launches = @ \ {l}, !.alive = @ \cup {l},
                            !.browser = l, !.analysesSinceLaunch = 0,
                            !.launching = Null]
     IN Commit([m1 EXCEPT !.attempts =
                  [a \in DOMAIN @ |-> IF a \in Waiters(Mach, l) THEN Got(@[a], l) ELSE @[a]]])
  /\ UNCHANGED <<version, now, nTimeouts, perf>>

\* chromium.launch() rejects: the .catch of ensureBrowser, then the awaiting frames.
LaunchFail(l) ==
  /\ l \in launches
  /\ Commit(FailWaiters([Mach EXCEPT !.launches = @ \ {l}, !.launching = Null],
                        l, Waiters(Mach, l)))
  /\ UNCHANGED <<version, now, nTimeouts, perf>>

\* Process p emits "disconnected" (it crashed, or its close() completed).
Disconnect(p) ==
  /\ p \in alive
  /\ Commit(onDisconnected([Mach EXCEPT !.alive = @ \ {p}, !.dead = @ \cup {p},
                                        !.closing = @ \ {p}], p))
  /\ UNCHANGED <<version, now, nTimeouts, perf>>

\* await browser?.close() returns: browser = null, then ensureBrowser().
CloseDone(a) ==
  /\ a \in DOMAIN attempts
  /\ attempts[a].pc = "close" /\ attempts[a].cl \notin alive
  /\ Commit(ensureBrowser([Mach EXCEPT !.browser = Null], a))
  /\ UNCHANGED <<version, now, nTimeouts, perf>>

\* context = await b.newContext(...)
NewContext(a) ==
  /\ a \in DOMAIN attempts
  /\ attempts[a].pc = "ctx"
  /\ Commit(IF attempts[a].b \in alive
              THEN SetA(Mach, a, [attempts[a] EXCEPT !.pc = "page", !.open = 1,
                                                     !.opened = @ + 1])
              ELSE Throw(Mach, a, "closed"))
  /\ UNCHANGED <<version, now, nTimeouts, perf>>

\* await context.route(...); page = await context.newPage(); page.goto(url) is called
NewPage(a) ==
  /\ a \in DOMAIN attempts
  /\ attempts[a].pc = "page"
  /\ Commit(IF attempts[a].b \in alive
              THEN SetA(Mach, a, [attempts[a] EXCEPT !.pc = "goto", !.navs = @ + 1])
              ELSE Throw(Mach, a, "closed"))
  /\ UNCHANGED <<version, now, nTimeouts, perf>>

\* page.goto(url) and the reads of readPerfWithRetry have answered; e is what
\* they amount to.  The suspensions between them touch nothing but the
\* frame's own position, so they are taken in one step.
Results(m, b) ==
  { Measure(g, r1, r2) :
      g \in Answers(m, b, GotoAnswers),
      r1 \in Answers(m, b, ReadAnswers),
      r2 \in Answers(m, b, ReadAnswers) }

Served(p) == IF p \in DOMAIN served THEN served[p] ELSE 0

Navigate(a, e) ==
  /\ a \in DOMAIN attempts
  /\ attempts[a].pc = "goto"
  /\ e \in Results(Mach, attempts[a].b)
  /\ Commit(IF e = ""
              THEN SetA([Mach EXCEPT !.analysesSinceLaunch = @ + 1,
                                     !.served = Put(@, attempts[a].b, Served(attempts[a].b) + 1)],
                        a, [attempts[a] EXCEPT !.pc = "fin"])
              ELSE Throw(Mach, a, e))
  /\ UNCHANGED <<version, now, nTimeouts, perf>>

\* v2 catch clause: page and context of the desktop try are closed, then
\* b.newContext() with the mobile profile is called.
FbClose(a) ==
  /\ a \in DOMAIN attempts
  /\ attempts[a].pc = "fbclose"
  /\ Commit(SetA(Mach, a, [attempts[a] EXCEPT !.pc = "ctx", !.open = 0, !.fb = TRUE]))
  /\ UNCHANGED <<version, now, nTimeouts, perf>>

\* A finally clause that closes nothing.
finallyNoClose(f) == [f EXCEPT !.pc = "done"]

\* finally { page?.close(); context?.close() }.  A v1 retry closes its own
\* context and returns into the catch clause of the first try, whose finally
\* then closes the context of the first try.
finallyClause(f) ==
  IF f.open > 0 /\ f.outer > 0
    THEN [f EXCEPT !.open = 0]
    ELSE [f EXCEPT !.open = 0, !.outer = 0, !.pc = "done"]

\* The finally clause of frame a has run.
Fin(a) ==
  /\ a \in DOMAIN attempts
  /\ attempts[a].pc = "fin"
  /\ LET g == finallyClause(attempts[a])
     IN Commit(IF g.pc = "done" THEN Leave(SetA(Mach, a, g), a) ELSE SetA(Mach, a, g))
  /\ UNCHANGED <<version, now, nTimeouts, perf>>

PerfIdle == [g |-> "ok", r1 |-> "ok", r2 |-> "ok", done |-> FALSE, err |-> "", reads |-> 0,
             waited |-> FALSE]

InitServer ==
  /\ version \in {"v1", "v2"}
  /\ now = 0
  /\ browser = Null /\ launching = Null /\ analysesSinceLaunch = 0
  /\ queue = <<>> /\ running = 0
  /\ pendingUrls = Empty /\ cache = Empty
  /\ tasks = Empty /\ attempts = Empty
  /\ launches = {} /\ nLaunch = 0 /\ alive = {} /\ dead = {} /\ closing = {}
  /\ callers = <<>> /\ jobsLog = <<>>
  /\ epoch = [u \in Urls |-> 0]
  /\ served = Empty
  /\ unclosed = 0
  /\ nTimeouts = 0

Init == InitServer /\ perf = PerfIdle

Next ==
  \/ \E u \in Urls : Request(u)
  \/ \E j \in 1..MaxRequests : TimerFire(j)
  \/ Tick
  \/ \E l \in 1..MaxLaunches : LaunchOk(l)
  \/ \E l \in 1..MaxLaunches + 1 : LaunchFail(l)
  \/ \E p \in 1..MaxLaunches : Disconnect(p)
  \/ \E a \in 1..MaxRequests : CloseDone(a)
  \/ \E a \in 1..MaxRequests : NewContext(a)
  \/ \E a \in 1..MaxRequests : NewPage(a)
  \/ \E a \in 1..MaxRequests, e \in {""} \cup EngineErrors : Navigate(a, e)
  \/ \E a \in 1..MaxRequests : FbClose(a)
  \/ \E a \in 1..MaxRequests : Fin(a)

Spec == Init /\ [][Next]_vars

\* ------------------------------------------------------------- scheduling
\* The next engine call of analyzeOnce frame a returns or throws.
Step(a) ==
  \/ CloseDone(a)
  \/ NewContext(a)
  \/ NewPage(a)
  \/ \E e \in {""} \cup EngineErrors : Navigate(a, e)
  \/ FbClose(a)
  \/ Fin(a)

\* An engine call returns or throws, a chromium.launch() settles, or a
\* process on which close() was called exits.
Work ==
  \/ \E a \in 1..MaxRequests : Step(a)
  \/ \E l \in 1..MaxLaunches + 1 : LaunchOk(l) \/ LaunchFail(l)
  \/ \E p \in closing : Disconnect(p)

\* Some engine work is outstanding: the states in which Work is enabled.
WorkPending ==
  \/ \E a \in DOMAIN attempts :
       \/ attempts[a].pc \in {"ctx", "page", "goto", "fbclose", "fin"}
       \/ attempts[a].pc = "close" /\ attempts[a].cl \notin alive
  \/ launches # {}
  \/ closing # {}

\* Weak fairness of Work (outstanding engine work is eventually done), with
\* its enabling condition written out, and of the clock.
Fairness ==
  /\ ([]<>~WorkPending) \/ ([]<><<Work>>_vars)
  /\ WF_vars(Tick)

\* The server with engine processes that exit only when closed: failures
\* come from navigation errors, rejected launches and the global timeout.
NextLive ==
  \/ \E u \in Urls : Request(u)
  \/ \E j \in 1..MaxRequests : TimerFire(j)
  \/ Tick
  \/ \E l \in 1..MaxLaunches : LaunchOk(l)
  \/ \E l \in 1..MaxLaunches + 1 : LaunchFail(l)
  \/ \E p \in closing : Disconnect(p)
  \/ \E a \in 1..MaxRequests : Step(a)

SpecLive == Init /\ [][NextLive]_vars /\ Fairness

\* -------------------------------------------------- one measurement alone
\* page.goto(url), then readPerfWithRetry(page), on a page whose answers are
\* given: g by page.goto, r1 and r2 by the first and second page.evaluate.
InitRead ==
  /\ InitServer
  /\ perf \in [g : GotoAnswers, r1 : ReadAnswers, r2 : ReadAnswers,
                done : {FALSE}, err : {""}, reads : {0}, waited : {FALSE}]

ReadPerf ==
  /\ ~perf.done
  /\ perf' = [perf EXCEPT !.done = TRUE,
                           !.err = Measure(perf.g, perf.r1, perf.r2),
                           !.reads = IF perf.g = "ok"
                                       THEN readPerfWithRetry(perf.r1, perf.r2).reads
                                       ELSE 0,
                           !.waited = perf.g = "ok" /\
                                        readPerfWithRetry(perf.r1, perf.r2).waited]
  /\ UNCHANGED <<version, now, browser, launching, analysesSinceLaunch, queue,
                 running, pendingUrls, cache, tasks, attempts, launches, nLaunch,
                 alive, dead, closing, callers, jobsLog, epoch, served, unclosed,
                 nTimeouts>>

NextRead == ReadPerf

SpecRead == InitRead /\ [][NextRead]_vars

\* ------------------------------------------------------------ consistency
TypeOK ==
  /\ version \in {"v1", "v2"} /\ now \in 0..MaxTime
  /\ browser \in 0..MaxLaunches /\ launching \in 0..MaxLaunches + 1
  /\ running = Cardinality(DOMAIN tasks)
  /\ DOMAIN tasks \subseteq DOMAIN attempts
  /\ alive \cap dead = {} /\ closing \subseteq alive
  /\ browser # Null => browser \in alive

\* ------------------------------------------------------------------ claims
LastCaller == callers'[Len(callers')]
Arrived(u) == Len(callers') = Len(callers) + 1 /\ LastCaller.url = u
Fresh(u)   == u \in DOMAIN cache /\ now - cache[u].time < CACHE_TTL_MS
QueuedNext(j) == \E i \in 1..Len(queue') : queue'[i].id = j
JobOf(u, r) == {j \in 1..Len(jobsLog) : jobsLog[j].url = u /\ jobsLog[j].round = r}
\* A round of u: the callers that arrived, without a cache hit, between two
\* completions of a job for u.
Round(u, r) ==
  {c \in 1..Len(callers) : callers[c].url = u /\ callers[c].round = r /\ ~callers[c].hit}
LastRoundFailed(u) ==
  /\ epoch[u] > 0
  /\ \E c \in Round(u, epoch[u] - 1) : callers[c].done /\ ~callers[c].ok

\* C1 (single-flight, part_000): the callers of one round of a url share one
\* job, whose task is invoked at most once and exactly once by the time any of
\* them is answered, and they are all answered together with the same outcome.
C1_SingleFlight ==
  version = "v2" =>
    \A u \in Urls : \A r \in 0..MaxRequests :
      /\ Cardinality(JobOf(u, r)) <= 1
      /\ \A j \in JobOf(u, r) : jobsLog[j].calls <= 1
      /\ \A c, d \in Round(u, r) :
           /\ callers[c].done = callers[d].done
           /\ callers[c].ok = callers[d].ok
           /\ callers[c].res = callers[d].res
      /\ \A c \in Round(u, r) :
           callers[c].done => \E j \in JobOf(u, r) : jobsLog[j].calls = 1

C1_Witness ==
  /\ version = "v2"
  /\ \E c, d \in 1..Len(callers) :
       /\ c # d /\ callers[c].url = callers[d].url
       /\ callers[c].round = callers[d].round
       /\ ~callers[c].hit /\ ~callers[d].hit
       /\ callers[c].done /\ callers[d].done

\* C2 (cache freshness, part_000): an enqueue call for a url whose cache entry
\* is younger than CACHE_TTL_MS is answered with the recorded result and
\* queues and starts nothing; one that finds the entry absent or at least
\* CACHE_TTL_MS old, and no registration in pendingUrls, queues a new job,
\* whose task is invoked once the job is admitted.
C2_CacheFreshness ==
  [][version = "v2" =>
      \A u \in Urls : Arrived(u) =>
        IF Fresh(u)
          THEN /\ LastCaller.done /\ LastCaller.ok
               /\ LastCaller.res = cache[u].result
               /\ UNCHANGED <<queue, jobsLog, tasks, attempts, pendingUrls, cache>>
          ELSE u \notin DOMAIN pendingUrls =>
               /\ ~LastCaller.done
               /\ Len(jobsLog') = Len(jobsLog) + 1
               /\ jobsLog'[Len(jobsLog')].url = u
               /\ \/ QueuedNext(Len(jobsLog')) /\ jobsLog'[Len(jobsLog')].calls = 0
                  \/ /\ Len(jobsLog') \in DOMAIN tasks'
                     /\ jobsLog'[Len(jobsLog')].calls = 1]_vars

\* A cached answer was given, and later the entry had expired and the same url
\* was computed again.
C2_Witness ==
  /\ version = "v2"
  /\ \E c, d \in 1..Len(callers) :
       /\ c < d /\ callers[c].url = callers[d].url
       /\ callers[c].hit /\ ~callers[d].hit /\ ~callers[d].done
       /\ callers[d].url \in DOMAIN cache
       /\ cache[callers[d].url].result = callers[c].res
       /\ now - cache[callers[d].url].time >= CACHE_TTL_MS

\* C3 (bounded concurrency): the analyzeOnce calls that have started and not
\* yet returned or thrown number at most MAX_CONCURRENCY.
C3_BoundedConcurrency == Cardinality(DOMAIN attempts) <= MAX_CONCURRENCY

\* C4 (no cache poisoning, part_000): the step in which a round fails leaves
\* the cache as it was, and the next enqueue call for that url is not answered
\* from the cache or with the error but queues a new job.
C4_NoCachePoisoning ==
  [][version = "v2" =>
      \A u \in Urls :
        /\ (epoch'[u] = epoch[u] + 1 /\ LastRoundFailed(u)') => cache' = cache
        /\ (LastRoundFailed(u) /\ u \notin DOMAIN pendingUrls /\ Arrived(u)) =>
             /\ ~LastCaller.done
             /\ Len(jobsLog') = Len(jobsLog) + 1
             /\ jobsLog'[Len(jobsLog')].url = u
             /\ u \in DOMAIN pendingUrls']_vars

\* A round failed and a later caller for the same url is being computed.
C4_Witness ==
  /\ version = "v2"
  /\ \E u \in Urls :
       /\ LastRoundFailed(u)
       /\ \E c \in Round(u, epoch[u]) : ~callers[c].done
       /\ \E j \in JobOf(u, epoch[u]) : j \in DOMAIN tasks

\* C5 (timed-out work is not wasted, part_000): when an analyzeOnce whose task
\* has timed out returns data, the cache then holds an entry for its url
\* recorded at that time.
C5_TimedOutWorkCached ==
  [][version = "v2" =>
      \A a \in DOMAIN attempts :
        (/\ a \notin DOMAIN tasks
         /\ attempts[a].pc = "fin" /\ ~attempts[a].failed
         /\ a \notin DOMAIN attempts') =>
          /\ attempts[a].url \in DOMAIN cache'
          /\ cache'[attempts[a].url].time = now]_vars

C7_ResourceRecovery ==
  [][/\ \A p \in alive \ alive' : browser = p => browser' = Null
     /\ \A a \in DOMAIN attempts' :
          (attempts'[a].b # Null /\ (a \notin DOMAIN attempts \/ attempts[a].b = Null)) =>
            /\ attempts'[a].b \in alive'
            /\ (a \in DOMAIN attempts /\ attempts[a].pc = "launch") =>
                 (attempts'[a].b = attempts[a].lw /\ attempts[a].lw \in launches)]_vars

\* A process has disconnected and a frame holds the process launched after it.
C7_Witness ==
  /\ dead # {} /\ browser \in alive
  /\ \E a \in DOMAIN attempts : attempts[a].b = browser
  /\ \A p \in dead : p < browser

\* C8 (retry bound): a first try whose newContext() fails because the handle
\* is closed is followed by a retry that awaits a launch; the retry's own
\* "closed" failure is thrown.
C8_ClosedRetry ==
  [][\A a \in DOMAIN attempts :
       (/\ attempts[a].pc = "ctx" /\ attempts[a].b \notin alive
        /\ a \in DOMAIN attempts' /\ attempts'[a] # attempts[a]) =>
         IF attempts[a].fresh
           THEN attempts'[a].pc = "fin" /\ attempts'[a].failed
           ELSE /\ attempts'[a].fresh /\ attempts'[a].b = Null
                /\ attempts'[a].pc = "launch" /\ attempts'[a].lw \in launches'
                /\ browser' = Null]_vars

\* C9 (single launch in flight): at most one chromium.launch() is pending, it
\* is the one `launching` names, and every frame awaiting a launch awaits it.
C9_SingleLaunch ==
  /\ Cardinality(launches) <= 1
  /\ launching = Null <=> launches = {}
  /\ launching # Null => launches = {launching} /\ browser = Null
  /\ \A a \in DOMAIN attempts : attempts[a].pc = "launch" => attempts[a].lw = launching

\* Two frames await the same launch, after an earlier launch failed.
C9_Witness ==
  /\ \E a, b \in DOMAIN attempts :
       a # b /\ attempts[a].pc = "launch" /\ attempts[b].pc = "launch"
  /\ launching > 1

\* C10 (FIFO admission): the queue holds the jobs in the order they were
\* queued, every job started was queued before every job still waiting, and
\* no more than MAX_CONCURRENCY tasks hold a slot.
C10_Fifo ==
  /\ \A i, k \in 1..Len(queue) : i < k => queue[i].id < queue[k].id
  /\ \A i \in 1..Len(queue) : \A j \in 1..Len(jobsLog) :
       jobsLog[j].calls > 0 => j < queue[i].id
  /\ Cardinality(DOMAIN tasks) <= MAX_CONCURRENCY
  /\ running = Cardinality(DOMAIN tasks)

\* A job runs that was started while a job queued after it was already waiting.
C10_Witness ==
  \E j \in DOMAIN tasks : \E i \in 1..Len(queue) :
    queue[i].id > j /\ queue[i].at < tasks[j].started

\* C11 (poisoned engine not reused): in the step in which a task fails and its
\* callers are answered with the error, the handle the failed analyzeOnce held
\* is no longer the shared `browser`, and no analyzeOnce started in that step
\* (the next job of the queue) has received it.
C11_PoisonedNotReused ==
  [][\A j \in DOMAIN tasks :
       (/\ j \notin DOMAIN tasks'
        /\ callers'[tasks[j].caller].done /\ ~callers'[tasks[j].caller].ok
        /\ attempts[j].b # Null) =>
         /\ browser' # attempts[j].b
         /\ \A a \in DOMAIN attempts' \ DOMAIN attempts :
              attempts'[a].b # attempts[j].b]_vars

\* C12 (guaranteed session release): whenever an analyzeOnce call returns or
\* throws, close() has been invoked on every context it opened: no call has
\* returned leaving a context it opened without close().
C12_SessionRelease == unclosed = 0

\* One call has returned its data (it had opened a context), another has
\* thrown after an engine died, and both have left analyzeOnce.
C12_Witness ==
  \E c, d \in 1..Len(callers) :
    /\ callers[c].done /\ callers[c].ok /\ ~callers[c].hit
    /\ callers[c].res \notin DOMAIN attempts
    /\ callers[d].done /\ ~callers[d].ok
    /\ callers[d].res \notin DOMAIN attempts
    /\ dead # {}

RECURSIVE SumOpen(_)
SumOpen(S) ==
  IF S = {} THEN 0
  ELSE LET a == CHOOSE x \in S : TRUE
       IN attempts[a].open + attempts[a].outer + SumOpen(S \ {a})
\* The contexts opened and not yet closed, over all analyzeOnce calls.
OpenSessions == SumOpen(DOMAIN attempts)

\* C13 (at most one open session): with MAX_CONCURRENCY = 1, at most one
\* context is opened and not yet closed at any instant.
C13_OneOpenSession == OpenSessions <= 1

\* C14 (one engine process): at most one engine process is launched and not
\* terminated, and a step that clears or replaces `browser` while the process
\* it named has not disconnected has close() invoked on that process.
C14_OneEngineProcess ==
  [][/\ Cardinality(alive') <= 1
     /\ (browser # Null /\ browser' # browser /\ browser \in alive') =>
          browser \in closing']_vars

\* C15 (bounded escalation): one top-level analyzeOnce call opens at most two
\* contexts, calls page.goto at most twice and enters at most one retry or
\* fallback; a retry or fallback that fails goes to the finally clause.
C15_BoundedEscalation ==
  \A a \in DOMAIN attempts :
    /\ attempts[a].opened <= 2 /\ attempts[a].navs <= 2 /\ attempts[a].esc <= 1
    /\ attempts[a].esc = 1 <=> (attempts[a].fresh \/ attempts[a].fb \/ attempts[a].pc = "fbclose")

\* A call whose first try and escalation both opened a context and navigated
\* has failed in the escalation and is in its finally clause.
C15_Witness ==
  \E a \in DOMAIN attempts :
    /\ attempts[a].opened = 2 /\ attempts[a].navs = 2 /\ attempts[a].esc = 1
    /\ attempts[a].pc = "fin" /\ attempts[a].failed

\* C16 (read retry exactly once): when the first read fails with "Execution
\* context was destroyed", exactly one more read is made and its data or
\* error is what readPerfWithRetry returns or throws, after the wait for
\* DOM-ready and the settle delay; when the first read
\* succeeds or fails otherwise, no second read is made and the first read's
\* data or error is the outcome.
C16_ReadRetryOnce ==
  (perf.done /\ perf.g = "ok") =>
    IF perf.r1 = "destroyed"
      THEN /\ perf.reads = 2 /\ perf.waited
           /\ perf.err = (IF perf.r2 = "ok" THEN "" ELSE perf.r2)
      ELSE /\ perf.reads = 1 /\ ~perf.waited
           /\ perf.err = (IF perf.r1 = "ok" THEN "" ELSE perf.r1)

\* Both reads failed with the renavigation error: the second one was thrown,
\* not retried.
C16_Witness ==
  /\ perf.done /\ perf.g = "ok"
  /\ perf.r1 = "destroyed" /\ perf.r2 = "destroyed"
  /\ perf.reads = 2 /\ perf.err = "destroyed"

\* The first half of C17: a completed launch sets the counter to 0 and only a
\* call that returns data increments it; a call that starts when the counter
\* has reached RELAUNCH_EVERY closes the engine held and awaits a launch
\* before it opens a context.
C17_CounterAndRecycle ==
  [][/\ analysesSinceLaunch' # analysesSinceLaunch =>
          \/ analysesSinceLaunch' = 0 /\ launches' # launches /\ browser' \in alive'
          \/ /\ analysesSinceLaunch' = analysesSinceLaunch + 1
             /\ \E a \in DOMAIN attempts :
                  attempts[a].pc = "goto" /\ attempts'[a].pc = "fin" /\ ~attempts'[a].failed
     /\ \A l \in launches \ launches' : l \in alive' => analysesSinceLaunch' = 0
     /\ \A a \in DOMAIN attempts' \ DOMAIN attempts :
          analysesSinceLaunch' >= RELAUNCH_EVERY =>
            /\ attempts'[a].b = Null /\ attempts'[a].open = 0
            /\ \/ attempts'[a].pc = "close" /\ attempts'[a].cl \in closing'
               \/ attempts'[a].pc = "launch" /\ attempts'[a].lw \in launches']_vars

\* C17 (periodic recycling): no engine process returns data to more than
\* RELAUNCH_EVERY analyzeOnce calls.
C17_PeriodicRecycling == \A p \in DOMAIN served : served[p] <= RELAUNCH_EVERY

\* The jobs for url u that wait in the queue or whose task drain is awaiting.
JobsFor(u) ==
  Cardinality({i \in 1..Len(queue) : queue[i].url = u})
    + Cardinality({j \in DOMAIN tasks : tasks[j].url = u})

\* C19 (registry consistency, part_000): a url is registered in pendingUrls
\* exactly when one job for it is queued or running, never more than one job
\* per url is queued or running, every registration holds at least one
\* waiter, and the job drain is awaiting always has its registration.
C19_RegistryConsistency ==
  version = "v2" =>
    /\ \A u \in Urls :
         /\ JobsFor(u) <= 1
         /\ u \in DOMAIN pendingUrls <=> JobsFor(u) = 1
    /\ \A u \in DOMAIN pendingUrls : u \in Urls /\ Len(pendingUrls[u]) >= 1
    /\ \A j \in DOMAIN tasks : tasks[j].url \in DOMAIN pendingUrls

\* One url is running with two waiters while another url is queued.
C19_Witness ==
  /\ version = "v2"
  /\ \E u, v \in DOMAIN pendingUrls :
       /\ u # v /\ Len(pendingUrls[u]) = 2
       /\ \E j \in DOMAIN tasks : tasks[j].url = u
       /\ \E i \in 1..Len(queue) : queue[i].url = v

\* C20 (stale disconnect isolation): a "disconnected" event of a process that
\* `browser` does not name leaves `browser` as it is.
C20_StaleDisconnect ==
  [][\A p \in alive \ alive' : browser # p => browser' = browser]_vars

\* Nothing is owed: every caller has its answer, every job was started, no
\* job waits, no task holds a slot and no url is registered.
Quiescent ==
  /\ \A c \in 1..Len(callers) : callers[c].done
  /\ \A j \in 1..Len(jobsLog) : jobsLog[j].calls = 1
  /\ queue = <<>> /\ running = 0 /\ tasks = Empty /\ pendingUrls = Empty

====
